---- MODULE Spec2Model ----
(***************************************************************************)
(* A model of the assistant bot of hw7task1.py: the field validators       *)
(* (Phone, Birthday), Record, AddressBook with its upcoming-birthdays      *)
(* query, and the command handlers that main() dispatches to.              *)
(*                                                                         *)
(* A Python str is a sequence of one-character tokens, so that isdigit,    *)
(* len, strptime and strftime are computed character by character.  A     *)
(* Field object (Name, Phone, Birthday) is represented by its value.       *)
(* A display string is a TLA+ string, built by concatenation as the        *)
(* f-strings of the source build it.                                       *)
(***************************************************************************)
EXTENDS Integers, Sequences, FiniteSets, TLC

VARIABLES book, cmd, out, given

vars == <<book, cmd, out, given>>

(***************************************************************************)
(* Bounds of the model.                                                    *)
(***************************************************************************)
\* the longest phone list a record may grow to
MaxPhones == 2
\* the days after FirstToday that the birthday query is asked on
SpanDays == 80
\* the longest tail of arbitrary characters of a candidate phone string
MaxTail == 2

(***************************************************************************)
(* Strings.                                                                *)
(***************************************************************************)
AsciiDigits == {"0", "1", "2", "3", "4", "5", "6", "7", "8", "9"}

\* Characters outside '0'..'9' for which Python's str.isdigit() is true:
\* SUPERSCRIPT TWO and ARABIC-INDIC DIGIT THREE, written by code point.
UnicodeDigits == {"U+00B2", "U+0663"}

RECURSIVE Str(_)
Str(s) == IF s = <<>> THEN "" ELSE Head(s) \o Str(Tail(s))

RECURSIVE Join(_, _)
Join(sep, strs) ==
    IF strs = <<>> THEN ""
    ELSE IF Len(strs) = 1 THEN strs[1]
    ELSE strs[1] \o sep \o Join(sep, Tail(strs))

isdigit(s) == s # <<>> /\ \A i \in 1..Len(s) : s[i] \in AsciiDigits \cup UnicodeDigits

DigitVal(c) ==
    CASE c = "0" -> 0 [] c = "1" -> 1 [] c = "2" -> 2 [] c = "3" -> 3 [] c = "4" -> 4
      [] c = "5" -> 5 [] c = "6" -> 6 [] c = "7" -> 7 [] c = "8" -> 8 [] c = "9" -> 9

DigitChar(n) == <<"0", "1", "2", "3", "4", "5", "6", "7", "8", "9">>[n + 1]

RECURSIVE ToInt(_)
ToInt(s) == IF s = <<>> THEN 0 ELSE 10 * ToInt(SubSeq(s, 1, Len(s) - 1)) + DigitVal(s[Len(s)])

AllAscii(s) == \A i \in 1..Len(s) : s[i] \in AsciiDigits

\* the fields of s between the separators
RECURSIVE Split(_, _)
Split(s, sep) ==
    IF \A i \in 1..Len(s) : s[i] # sep THEN <<s>>
    ELSE LET k == CHOOSE i \in 1..Len(s) : s[i] = sep /\ \A j \in 1..(i - 1) : s[j] # sep
         IN  <<SubSeq(s, 1, k - 1)>> \o Split(SubSeq(s, k + 1, Len(s)), sep)

(***************************************************************************)
(* datetime.date: a date is [y, m, d]; None is the absent birthday.        *)
(***************************************************************************)
None == [y |-> 0, m |-> 0, d |-> 0]

Date(y, m, d) == [y |-> y, m |-> m, d |-> d]

IsLeap(y) == y % 4 = 0 /\ (y % 100 # 0 \/ y % 400 = 0)

DaysInMonth(y, m) ==
    IF m = 2 THEN (IF IsLeap(y) THEN 29 ELSE 28)
    ELSE <<31, 28, 31, 30, 31, 30, 31, 31, 30, 31, 30, 31>>[m]

DaysBeforeMonth(y, m) ==
    <<0, 31, 59, 90, 120, 151, 181, 212, 243, 273, 304, 334>>[m]
        + (IF m > 2 /\ IsLeap(y) THEN 1 ELSE 0)

DaysBeforeYear(y) == (y - 1) * 365 + ((y - 1) \div 4) - ((y - 1) \div 100) + ((y - 1) \div 400)

ValidDate(y, m, d) == y \in 1..9999 /\ m \in 1..12 /\ d \in 1..DaysInMonth(y, m)

toordinal(dt) == DaysBeforeYear(dt.y) + DaysBeforeMonth(dt.y, dt.m) + dt.d

\* Monday is 0, Sunday is 6
weekday(dt) == (toordinal(dt) + 6) % 7

fromordinal(ord) ==
    LET n0   == ord - 1
        n400 == n0 \div 146097
        r400 == n0 % 146097
        n100 == r400 \div 36524
        r100 == r400 % 36524
        n4   == r100 \div 1461
        r4   == r100 % 1461
        n1   == r4 \div 365
        n    == r4 % 365
        year == n400 * 400 + 1 + n100 * 100 + n4 * 4 + n1
        leap == n1 = 3 /\ (n4 # 24 \/ n100 = 3)
        m0   == (n + 50) \div 32
        p0   == <<0, 31, 59, 90, 120, 151, 181, 212, 243, 273, 304, 334>>[m0]
                    + (IF m0 > 2 /\ leap THEN 1 ELSE 0)
        month == IF p0 > n THEN m0 - 1 ELSE m0
        prec  == IF p0 > n
                 THEN p0 - (<<31, 28, 31, 30, 31, 30, 31, 31, 30, 31, 30, 31>>[m0 - 1]
                                + (IF m0 - 1 = 2 /\ leap THEN 1 ELSE 0))
                 ELSE p0
    IN  IF n1 = 4 \/ n100 = 4 THEN Date(year - 1, 12, 31)
        ELSE Date(year, month, n - prec + 1)

\* date + timedelta(days=n)
PlusDays(dt, n) == fromordinal(toordinal(dt) + n)

\* date < date: Python compares (year, month, day)
DateLT(a, b) ==
    \/ a.y < b.y
    \/ a.y = b.y /\ a.m < b.m
    \/ a.y = b.y /\ a.m = b.m /\ a.d < b.d

DateLE(a, b) == a = b \/ DateLT(a, b)

\* date.replace(year=y): <<date>>, or <<>> when date(y, m, d) raises ValueError
replace_year(dt, y) == IF ValidDate(y, dt.m, dt.d) THEN <<Date(y, dt.m, dt.d)>> ELSE <<>>

Pad(n, width) ==
    [i \in 1..width |-> DigitChar((n \div (10 ^ (width - i))) % 10)]

\* date.strftime("%Y.%m.%d"), for the years from 1000 on
strftime(dt) == Pad(dt.y, 4) \o <<".">> \o Pad(dt.m, 2) \o <<".">> \o Pad(dt.d, 2)

\* str(date): the ISO form that an f-string renders a date value in
isoformat(dt) == Str(Pad(dt.y, 4)) \o "-" \o Str(Pad(dt.m, 2)) \o "-" \o Str(Pad(dt.d, 2))

(***************************************************************************)
(* Field validators.                                                       *)
(***************************************************************************)
PhoneLen == 10

PhoneError == "Phone number must be 10 digits and contain only digits"

BirthdayError == "Invalid date format. Use DD.MM.YYYY"

\* Phone(value): the Phone's value, or the ValueError it raises
Phone(value) ==
    IF ~isdigit(value) \/ Len(value) # PhoneLen
    THEN [ok |-> FALSE, value |-> <<>>, err |-> PhoneError]
    ELSE [ok |-> TRUE, value |-> value, err |-> ""]

\* datetime.strptime(value, "%d.%m.%Y").date() on strings of ASCII characters:
\* day and month of one or two digits, a year of four, a real calendar date
strptime_dmY(value) ==
    LET f == Split(value, ".")
    IN  IF /\ Len(f) = 3
           /\ Len(f[1]) \in {1, 2} /\ AllAscii(f[1])
           /\ Len(f[2]) \in {1, 2} /\ AllAscii(f[2])
           /\ Len(f[3]) = 4 /\ AllAscii(f[3])
           /\ ToInt(f[2]) \in 1..12
           /\ ToInt(f[1]) \in 1..31
           /\ ValidDate(ToInt(f[3]), ToInt(f[2]), ToInt(f[1]))
        THEN <<Date(ToInt(f[3]), ToInt(f[2]), ToInt(f[1]))>>
        ELSE <<>>

\* Birthday(value): the date, or the ValueError it raises
Birthday(value) ==
    LET parsed == strptime_dmY(value)
    IN  IF parsed = <<>>
        THEN [ok |-> FALSE, value |-> None, err |-> BirthdayError]
        ELSE [ok |-> TRUE, value |-> parsed[1], err |-> ""]

\* datetime.strptime(date_string, "%Y.%m.%d").date(), on a string strftime made
string_to_date(date_string) ==
    LET f == Split(date_string, ".")
    IN  Date(ToInt(f[1]), ToInt(f[2]), ToInt(f[3]))

(***************************************************************************)
(* Record.                                                                 *)
(***************************************************************************)
Record(name) == [name |-> name, phones |-> <<>>, birthday |-> None]

add_phone(record, phone) == [record EXCEPT !.phones = Append(@, phone)]

\* the index of the first phone whose value is phone, or 0
FirstMatch(phones, phone) ==
    IF \E i \in 1..Len(phones) : phones[i] = phone
    THEN CHOOSE i \in 1..Len(phones) :
            phones[i] = phone /\ \A j \in 1..(i - 1) : phones[j] # phone
    ELSE 0

remove_phone(record, phone) ==
    LET i == FirstMatch(record.phones, phone)
    IN  IF i = 0 THEN record
        ELSE [record EXCEPT !.phones = SubSeq(@, 1, i - 1) \o SubSeq(@, i + 1, Len(@))]

edit_phone(record, old_phone, new_phone) ==
    LET i == FirstMatch(record.phones, old_phone)
    IN  IF i = 0 THEN record ELSE [record EXCEPT !.phones[i] = new_phone]

\* <<phone>>, or <<>> for Python's None
find_phone(record, phone) ==
    LET i == FirstMatch(record.phones, phone)
    IN  IF i = 0 THEN <<>> ELSE <<record.phones[i]>>

\* Record.add_birthday: the record with the birthday set, or the ValueError
record_add_birthday(record, birthday) ==
    LET bd == Birthday(birthday)
    IN  IF bd.ok THEN [ok |-> TRUE, record |-> [record EXCEPT !.birthday = bd.value], err |-> ""]
        ELSE [ok |-> FALSE, record |-> record, err |-> bd.err]

record_str(record) ==
    "Contact name: " \o Str(record.name) \o ", phones: "
        \o Join("; ", [i \in 1..Len(record.phones) |-> Str(record.phones[i])])
        \o (IF record.birthday # None THEN ", Birthday: " \o isoformat(record.birthday) ELSE "")

\* str(record).strip(): a record without phones and birthday ends in a space
record_str_stripped(record) ==
    IF record.phones = <<>> /\ record.birthday = None
    THEN "Contact name: " \o Str(record.name) \o ", phones:"
    ELSE record_str(record)

(***************************************************************************)
(* AddressBook: the dict, in insertion order, as a sequence of entries     *)
(* [key, rec].                                                             *)
(***************************************************************************)
Keys(b) == {b[i].key : i \in 1..Len(b)}

IndexOf(b, name) == CHOOSE i \in 1..Len(b) : b[i].key = name

\* add_record that always makes a new entry
add_record_appending(b, record) == Append(b, [key |-> record.name, rec |-> record])

\* self.data[record.name.value] = record
add_record(b, record) ==
    IF record.name \in Keys(b)
    THEN [b EXCEPT ![IndexOf(b, record.name)].rec = record]
    ELSE Append(b, [key |-> record.name, rec |-> record])

\* self.data.get(name): <<record>>, or <<>> for None
find(b, name) == IF name \in Keys(b) THEN <<b[IndexOf(b, name)].rec>> ELSE <<>>

\* delete that passes over a missing name (self.data.pop(name, None))
delete_ignoring_missing(b, name) ==
    IF name \in Keys(b)
    THEN LET i == IndexOf(b, name)
         IN  [ok |-> TRUE, book |-> SubSeq(b, 1, i - 1) \o SubSeq(b, i + 1, Len(b))]
    ELSE [ok |-> TRUE, book |-> b]

\* del self.data[name]: the book without the entry, or the KeyError
delete(b, name) ==
    IF name \in Keys(b)
    THEN LET i == IndexOf(b, name)
         IN  [ok |-> TRUE, book |-> SubSeq(b, 1, i - 1) \o SubSeq(b, i + 1, Len(b))]
    ELSE [ok |-> FALSE, book |-> b]

\* a mutation of the record object that find(name) returned
SetRecord(b, name, record) == [b EXCEPT ![IndexOf(b, name)].rec = record]

find_next_weekday(start_date, wd) ==
    LET days_ahead == wd - weekday(start_date)
    IN  PlusDays(start_date, IF days_ahead <= 0 THEN days_ahead + 7 ELSE days_ahead)

\* adjust_for_weekend with the test for the weekend one day off
adjust_for_weekend_sunday_only(birthday) ==
    IF weekday(birthday) >= 6 THEN find_next_weekday(birthday, 0) ELSE birthday

adjust_for_weekend(birthday) ==
    IF weekday(birthday) >= 5 THEN find_next_weekday(birthday, 0) ELSE birthday

\* the for loop of get_upcoming_birthdays over the records left, birthdays so far
RECURSIVE UpcomingLoop(_, _, _)
UpcomingLoop(entries, today, birthdays) ==
    IF entries = <<>> THEN [ok |-> TRUE, val |-> birthdays]
    ELSE LET record == Head(entries).rec
             next_week == PlusDays(today, 7)
         IN  IF record.birthday = None THEN UpcomingLoop(Tail(entries), today, birthdays)
             ELSE LET this == replace_year(record.birthday, today.y)
                  IN  IF this = <<>> THEN [ok |-> FALSE, val |-> <<>>]
                      ELSE LET rolled == IF DateLT(this[1], today)
                                         THEN replace_year(this[1], today.y + 1)
                                         ELSE this
                           IN  IF rolled = <<>> THEN [ok |-> FALSE, val |-> <<>>]
                               ELSE IF DateLE(today, rolled[1]) /\ DateLT(rolled[1], next_week)
                               THEN UpcomingLoop(Tail(entries), today,
                                        Append(birthdays,
                                            [name |-> record.name,
                                             congratulation_date |->
                                                 strftime(adjust_for_weekend(rolled[1]))]))
                               ELSE UpcomingLoop(Tail(entries), today, birthdays)

\* the list of upcoming birthdays, or the ValueError of date.replace
get_upcoming_birthdays(b, today) == UpcomingLoop(b, today, <<>>)

(***************************************************************************)
(* The command handlers.  Each takes the argument list and the book and    *)
(* gives the book afterwards and what the call came to: a returned display *)
(* string, or an exception that leaves the handler.                        *)
(***************************************************************************)
Ret(msg) == [kind |-> "return", msg |-> msg, val |-> <<>>]

Raise(exc) == [kind |-> "raise", msg |-> exc, val |-> <<>>]

NotFound(name) == "Contact " \o Str(name) \o " not found"

PhoneStrs(record) == [i \in 1..Len(record.phones) |-> Str(record.phones[i])]

\* add_contact that sets the phone list to the new phone instead of appending
add_contact_overwriting(args, b) ==
    IF Len(args) < 2
    THEN [book |-> b, out |-> Ret("Not enough arguments. Usage: add <name> <phone>")]
    ELSE LET name    == args[1]
             phone   == args[2]
             found   == find(b, name)
             b1      == IF found = <<>> THEN add_record(b, Record(name)) ELSE b
             record  == find(b1, name)[1]
             message == IF found = <<>> THEN "Contact added." ELSE "Contact updated."
         IN  IF phone # <<>>
             THEN LET phone_obj == Phone(phone)
                  IN  IF phone_obj.ok
                      THEN [book |-> SetRecord(b1, name,
                                        [record EXCEPT !.phones = <<phone_obj.value>>]),
                            out  |-> Ret(message)]
                      ELSE [book |-> b1, out |-> Ret(phone_obj.err)]
             ELSE [book |-> b1, out |-> Ret(message)]

add_contact(args, b) ==
    IF Len(args) < 2
    THEN [book |-> b, out |-> Ret("Not enough arguments. Usage: add <name> <phone>")]
    ELSE LET name    == args[1]
             phone   == args[2]
             found   == find(b, name)
             b1      == IF found = <<>> THEN add_record(b, Record(name)) ELSE b
             record  == find(b1, name)[1]
             message == IF found = <<>> THEN "Contact added." ELSE "Contact updated."
         IN  IF phone # <<>>
             THEN LET phone_obj == Phone(phone)
                  IN  IF phone_obj.ok
                      THEN [book |-> SetRecord(b1, name, add_phone(record, phone_obj.value)),
                            out  |-> Ret(message)]
                      ELSE [book |-> b1, out |-> Ret(phone_obj.err)]
             ELSE [book |-> b1, out |-> Ret(message)]

\* change_contact that, as add_contact does, makes the record it does not find
change_contact_creating(args, b) ==
    IF Len(args) < 2
    THEN [book |-> b, out |-> Ret("Not enough arguments. Usage: change <name> <phone>")]
    ELSE LET name  == args[1]
             phone == args[2]
             found == find(b, name)
         IN  IF found # <<>>
             THEN LET old_phones == PhoneStrs(found[1])
                      cleared    == [found[1] EXCEPT !.phones = <<>>]
                      phone_obj  == Phone(phone)
                  IN  IF phone_obj.ok
                      THEN [book |-> SetRecord(b, name, add_phone(cleared, phone_obj.value)),
                            out  |-> Ret("Phone number for " \o Str(name) \o " changed from "
                                            \o Join(", ", old_phones) \o " to " \o Str(phone))]
                      ELSE [book |-> SetRecord(b, name, cleared), out |-> Ret(phone_obj.err)]
             ELSE [book |-> add_record(b, Record(name)), out |-> Ret(NotFound(name))]

change_contact(args, b) ==
    IF Len(args) < 2
    THEN [book |-> b, out |-> Ret("Not enough arguments. Usage: change <name> <phone>")]
    ELSE LET name  == args[1]
             phone == args[2]
             found == find(b, name)
         IN  IF found # <<>>
             THEN LET old_phones == PhoneStrs(found[1])
                      cleared    == [found[1] EXCEPT !.phones = <<>>]
                      phone_obj  == Phone(phone)
                  IN  IF phone_obj.ok
                      THEN [book |-> SetRecord(b, name, add_phone(cleared, phone_obj.value)),
                            out  |-> Ret("Phone number for " \o Str(name) \o " changed from "
                                            \o Join(", ", old_phones) \o " to " \o Str(phone))]
                      ELSE [book |-> SetRecord(b, name, cleared), out |-> Ret(phone_obj.err)]
             ELSE [book |-> b, out |-> Ret(NotFound(name))]

show_phone(args, b) ==
    IF Len(args) < 1
    THEN [book |-> b, out |-> Ret("Not enough arguments. Usage: phone <name>")]
    ELSE LET name  == args[1]
             found == find(b, name)
         IN  IF found # <<>>
             THEN IF found[1].phones # <<>>
                  THEN [book |-> b,
                        out  |-> Ret(Str(name) \o "'s phones: " \o Join(", ", PhoneStrs(found[1])))]
                  ELSE [book |-> b, out |-> Ret(Str(name) \o " has no phone numbers")]
             ELSE [book |-> b, out |-> Ret(NotFound(name))]

show_all(args, b) ==
    IF b # <<>>
    THEN [book |-> b,
          out  |-> Ret("Address Book:\n"
                          \o Join("\n", [i \in 1..Len(b) |->
                                 IF i = Len(b) THEN record_str_stripped(b[i].rec)
                                 ELSE record_str(b[i].rec)]))]
    ELSE [book |-> b, out |-> Ret("Address Book is empty")]

add_birthday(args, b) ==
    IF Len(args) < 2
    THEN [book |-> b,
          out  |-> Ret("Not enough arguments. Usage: add_birthday <name> <birthday>")]
    ELSE LET name     == args[1]
             birthday == args[2]
             found    == find(b, name)
         IN  IF found # <<>>
             THEN LET set == record_add_birthday(found[1], birthday)
                  IN  IF set.ok
                      THEN [book |-> SetRecord(b, name, set.record),
                            out  |-> Ret("Birthday added for " \o Str(name))]
                      ELSE [book |-> b, out |-> Ret(set.err)]
             ELSE [book |-> b, out |-> Ret(NotFound(name))]

show_birthday(args, b) ==
    IF Len(args) < 1
    THEN [book |-> b, out |-> Ret("Not enough arguments. Usage: birthday <name>")]
    ELSE LET name  == args[1]
             found == find(b, name)
         IN  IF found # <<>> /\ found[1].birthday # None
             THEN [book |-> b,
                   out  |-> Ret(Str(name) \o "'s birthday: " \o isoformat(found[1].birthday))]
             ELSE IF found # <<>>
             THEN [book |-> b, out |-> Ret(Str(name) \o " has no birthday set")]
             ELSE [book |-> b, out |-> Ret(NotFound(name))]

\* today is what date.today() gives during the call
birthdays(args, b, today) ==
    LET upcoming_birthdays == get_upcoming_birthdays(b, today)
    IN  IF ~upcoming_birthdays.ok THEN [book |-> b, out |-> Raise("ValueError")]
        ELSE IF upcoming_birthdays.val # <<>>
        THEN [book |-> b,
              out  |-> [kind |-> "return",
                        msg  |-> "Upcoming birthdays:\n"
                                    \o Join("\n", [i \in 1..Len(upcoming_birthdays.val) |->
                                           Str(upcoming_birthdays.val[i].name) \o ": "
                                             \o Str(upcoming_birthdays.val[i].congratulation_date)]),
                        val  |-> upcoming_birthdays.val]]
        ELSE [book |-> b, out |-> Ret("No upcoming birthdays")]

(***************************************************************************)
(* The inputs the model draws from.                                        *)
(***************************************************************************)
Alice == <<"A", "l", "i", "c", "e">>

Bob == <<"B", "o", "b">>

Names == {Alice, Bob}

Phone1 == <<"0", "1", "2", "3", "4", "5", "6", "7", "8", "9">>

Phone2 == <<"5", "5", "5", "5", "5", "5", "5", "5", "5", "5">>

\* not a phone: too short, and with a letter
BadPhone == <<"1", "2", "a">>

ValidPhones == {Phone1, Phone2}

PhoneInputs == ValidPhones \cup {BadPhone}

\* 29.02.2000
LeapBirthday == <<"2", "9", ".", "0", "2", ".", "2", "0", "0", "0">>

\* 31.02.2000, no calendar date
BadBirthday == <<"3", "1", ".", "0", "2", ".", "2", "0", "0", "0">>

BirthdayInputs == {LeapBirthday, BadBirthday}

\* an argument after the ones a handler reads
Extra == <<"x">>

\* the argument lists of a handler that reads a name and a second argument
TwoArgLists(seconds) ==
    {<<>>} \cup {<<n>> : n \in Names} \cup {<<n, a>> : n \in Names, a \in seconds}
        \cup {<<n, Phone1, Extra>> : n \in Names}

\* the argument lists of a handler that reads a name
OneArgLists == {<<>>} \cup {<<n>> : n \in Names} \cup {<<n, Extra>> : n \in Names}

\* the days date.today() gives in the command loop: in a leap year before
\* 29 February, and in the year before it
LoopTodays == {Date(2024, 2, 26), Date(2023, 2, 27)}

\* the records a caller of add_record has built
BuiltRecords == {Record(n) : n \in Names} \cup {add_phone(Record(n), Phone1) : n \in Names}

(***************************************************************************)
(* The state: book is the AddressBook of main(), cmd the call in progress  *)
(* (NoCmd at the prompt), out what the call came to, and given, for every  *)
(* name, the phones that add commands have given it (history).             *)
(***************************************************************************)
NoCmd == [op |-> "", args |-> <<>>, today |-> None]

NoOut == [kind |-> "none", msg |-> "", val |-> <<>>]

Call(op, args) == [op |-> op, args |-> args, today |-> None]

NoHistory == [n \in Names |-> [only_adds |-> TRUE, phones |-> <<>>]]

WithinBounds(b) == \A i \in 1..Len(b) : Len(b[i].rec.phones) <= MaxPhones

Init ==
    /\ book = <<>>
    /\ cmd = NoCmd
    /\ out = NoOut
    /\ given = NoHistory

\* a handler called with args: the book and the result are the handler's
Handle(op, args, r) ==
    /\ cmd = NoCmd
    /\ WithinBounds(r.book)
    /\ cmd' = Call(op, args)
    /\ book' = r.book
    /\ out' = r.out
    /\ UNCHANGED given

AddContact == \E args \in TwoArgLists(PhoneInputs) : Handle("add", args, add_contact(args, book))

ChangeContact ==
    \E args \in TwoArgLists(PhoneInputs) : Handle("change", args, change_contact(args, book))

ShowPhone == \E args \in OneArgLists : Handle("phone", args, show_phone(args, book))

ShowAll == Handle("show_all", <<>>, show_all(<<>>, book))

AddBirthday ==
    \E args \in TwoArgLists(BirthdayInputs) :
        Handle("add_birthday", args, add_birthday(args, book))

ShowBirthday == \E args \in OneArgLists : Handle("birthday", args, show_birthday(args, book))

Birthdays ==
    \E today \in LoopTodays :
        /\ cmd = NoCmd
        /\ cmd' = [op |-> "birthdays", args |-> <<>>, today |-> today]
        /\ book' = birthdays(<<>>, book, today).book
        /\ out' = birthdays(<<>>, book, today).out
        /\ UNCHANGED given

(***************************************************************************)
(* The methods of AddressBook and Record, called directly.                 *)
(***************************************************************************)
Returned(val) == [kind |-> "return", msg |-> "", val |-> val]

Direct(op, args, b, o) ==
    /\ cmd = NoCmd
    /\ WithinBounds(b)
    /\ cmd' = Call(op, args)
    /\ book' = b
    /\ out' = o
    /\ UNCHANGED given

AddRecord ==
    \E record \in BuiltRecords :
        Direct("add_record", <<record>>, add_record(book, record), Returned(<<>>))

Find == \E name \in Names : Direct("find", <<name>>, book, Returned(find(book, name)))

Delete ==
    \E name \in Names :
        LET r == delete(book, name)
        IN  Direct("delete", <<name>>, r.book,
                   IF r.ok THEN Returned(<<>>) ELSE Raise("KeyError"))

\* record.add_phone(Phone(value)) on the record of name
RecordAddPhone ==
    \E name \in Keys(book), value \in PhoneInputs :
        LET phone == Phone(value)
            record == find(book, name)[1]
        IN  IF phone.ok
            THEN Direct("add_phone", <<name, value>>,
                        SetRecord(book, name, add_phone(record, phone.value)), Returned(<<>>))
            ELSE Direct("add_phone", <<name, value>>, book, Raise("ValueError"))

RecordRemovePhone ==
    \E name \in Keys(book), value \in PhoneInputs :
        Direct("remove_phone", <<name, value>>,
               SetRecord(book, name, remove_phone(find(book, name)[1], value)), Returned(<<>>))

RecordEditPhone ==
    \E name \in Keys(book), old \in PhoneInputs, new \in PhoneInputs :
        Direct("edit_phone", <<name, old, new>>,
               SetRecord(book, name, edit_phone(find(book, name)[1], old, new)), Returned(<<>>))

RecordFindPhone ==
    \E name \in Keys(book), value \in PhoneInputs :
        Direct("find_phone", <<name, value>>, book,
               Returned(find_phone(find(book, name)[1], value)))

HandlerOps == {"add", "change", "phone", "show_all", "add_birthday", "birthday", "birthdays"}

\* The loop of main() prints what the handler returned and prompts again; an
\* exception that leaves a handler leaves main() too.  A direct caller goes on
\* after either outcome.
Continue ==
    /\ cmd # NoCmd
    /\ out.kind = "return" \/ cmd.op \notin HandlerOps
    /\ cmd' = NoCmd
    /\ out' = NoOut
    /\ UNCHANGED <<book, given>>

Next ==
    \/ AddContact
    \/ ChangeContact
    \/ ShowPhone
    \/ ShowAll
    \/ AddBirthday
    \/ ShowBirthday
    \/ Birthdays
    \/ AddRecord
    \/ Find
    \/ Delete
    \/ RecordAddPhone
    \/ RecordRemovePhone
    \/ RecordEditPhone
    \/ RecordFindPhone
    \/ Continue

Spec == Init /\ [][Next]_vars

(***************************************************************************)
(* Add commands with their history: given[n] holds the phones that add     *)
(* commands gave the name n, as long as every add command that named n     *)
(* came with a phone of ten decimal digits.                                *)
(***************************************************************************)
TenDigits(value) == Len(value) = 10 /\ AllAscii(value)

Logged(history, args) ==
    IF Len(args) < 1 THEN history
    ELSE IF Len(args) >= 2 /\ TenDigits(args[2]) /\ history[args[1]].only_adds
    THEN [history EXCEPT ![args[1]].phones = Append(@, args[2])]
    ELSE [history EXCEPT ![args[1]] = [only_adds |-> FALSE, phones |-> <<>>]]

AddContactLogged ==
    \E args \in TwoArgLists(PhoneInputs) :
        LET r == add_contact(args, book)
        IN  /\ cmd = NoCmd
            /\ WithinBounds(r.book)
            /\ cmd' = Call("add", args)
            /\ book' = r.book
            /\ out' = r.out
            /\ given' = Logged(given, args)

NextAdd ==
    \/ AddContactLogged
    \/ AddBirthday
    \/ Continue

SpecAdd == Init /\ [][NextAdd]_vars

(***************************************************************************)
(* Phone construction on its own, over strings up to one character longer  *)
(* than a phone: a run of decimal digits and a tail of other characters.   *)
(***************************************************************************)
TailChars == {"7", "a", " ", "U+00B2", "U+0663"}

Tails == UNION {[1..k -> TailChars] : k \in 0..MaxTail}

DigitRun(k) == [i \in 1..k |-> DigitChar(i % 10)]

PhoneStrings == {DigitRun(k) \o t : k \in 0..(PhoneLen + 1), t \in Tails}

NewPhone ==
    \E value \in PhoneStrings :
        LET phone == Phone(value)
        IN  /\ cmd = NoCmd
            /\ cmd' = Call("Phone", <<value>>)
            /\ out' = IF phone.ok THEN Returned(<<phone.value>>) ELSE Raise(phone.err)
            /\ UNCHANGED <<book, given>>

NextPhone ==
    \/ NewPhone
    \/ Continue

SpecPhone == Init /\ [][NextPhone]_vars

(***************************************************************************)
(* The upcoming-birthdays query on its own: books of one or two records    *)
(* with birthdays from December to March (and the two June days of the     *)
(* documented examples), asked on each day of a span from 20 December 2023 *)
(* into March 2024, a leap year, and on 10 June 2024.                      *)
(***************************************************************************)
FirstToday == Date(2023, 12, 20)

QueryTodays == {PlusDays(FirstToday, k) : k \in 0..SpanDays} \cup {Date(2024, 6, 10)}

WinterBirthdays ==
    {Date(2000, m, d) : m \in {12, 1, 2, 3}, d \in 1..31} \cap
        {dt \in [y : {2000}, m : 1..12, d : 1..31] : ValidDate(dt.y, dt.m, dt.d)}

QueryBirthdays == WinterBirthdays \cup {Date(1990, 6, 14), Date(1990, 6, 15)}

SecondBirthdays == {None, Date(1990, 1, 2), Date(2000, 2, 29), Date(1990, 3, 2)}

WithBirthday(name, dt) == [Record(name) EXCEPT !.birthday = dt]

\* the books that add_record leaves with these records, in either order
QueryBooks ==
    {add_record(<<>>, WithBirthday(Alice, dt)) : dt \in QueryBirthdays} \cup
    {add_record(add_record(<<>>, WithBirthday(p[1], dt)), WithBirthday(p[2], dt2)) :
        p \in {q \in Names \X Names : q[1] # q[2]},
        dt \in QueryBirthdays, dt2 \in SecondBirthdays}

InitQuery ==
    /\ book \in QueryBooks
    /\ cmd = NoCmd
    /\ out = NoOut
    /\ given = NoHistory

UpcomingBirthdays ==
    \E today \in QueryTodays :
        LET r == get_upcoming_birthdays(book, today)
        IN  /\ cmd = NoCmd
            /\ cmd' = [op |-> "get_upcoming_birthdays", args |-> <<>>, today |-> today]
            /\ out' = IF r.ok THEN Returned(r.val) ELSE Raise("ValueError")
            /\ UNCHANGED <<book, given>>

NextQuery == UpcomingBirthdays

SpecQuery == InitQuery /\ [][NextQuery]_vars

(***************************************************************************)
(* Vocabulary of the properties.                                           *)
(***************************************************************************)
UsageMessages ==
    {"Not enough arguments. Usage: add <name> <phone>",
     "Not enough arguments. Usage: change <name> <phone>",
     "Not enough arguments. Usage: phone <name>",
     "Not enough arguments. Usage: add_birthday <name> <birthday>",
     "Not enough arguments. Usage: birthday <name>"}

\* an error, usage or not-found message
Rejection(msg) ==
    msg \in UsageMessages \cup {PhoneError, BirthdayError} \cup {NotFound(n) : n \in Names}

\* the phones and the birthday of name in b: of a fresh record when name is absent
RecordOf(b, name) == IF name \in Keys(b) THEN find(b, name)[1] ELSE Record(name)

\* b2 is b with the record of name set to record (appended when new), all else kept
OnlyRecordSet(b, b2, name, record) ==
    IF name \in Keys(b)
    THEN /\ Len(b2) = Len(b)
         /\ \A i \in 1..Len(b) :
               b2[i] = IF b[i].key = name THEN [key |-> name, rec |-> record] ELSE b[i]
    ELSE b2 = Append(b, [key |-> name, rec |-> record])

\* the full effect of the command c on the book b is b2
FullEffect(c, b, b2) ==
    LET name == c.args[1]
        old  == RecordOf(b, name)
    IN  CASE c.op = "add" ->
                OnlyRecordSet(b, b2, name, [old EXCEPT !.phones = Append(@, c.args[2])])
          [] c.op = "change" ->
                OnlyRecordSet(b, b2, name, [old EXCEPT !.phones = <<c.args[2]>>])
          [] c.op = "add_birthday" ->
                OnlyRecordSet(b, b2, name, [old EXCEPT !.birthday = strptime_dmY(c.args[2])[1]])

\* C1: each of add, change and add_birthday either succeeds with its full
\* effect applied, or returns an error, usage or not-found message and leaves
\* the directory exactly as it was.
C1_EveryCommandAtomic ==
    [][cmd'.op \in {"add", "change", "add_birthday"} =>
          /\ out'.kind = "return"
          /\ IF Rejection(out'.msg) THEN book' = book ELSE FullEffect(cmd', book, book')]_vars

\* C2: no handler ever raises: every call of a handler, in every reachable
\* directory and on every current date, returns a display string.
C2_NoHandlerRaises == cmd.op \in HandlerOps => out.kind = "return"

\* C3: Phone construction succeeds if and only if the string has exactly 10
\* characters, each one of '0'..'9'; otherwise it fails with the
\* invalid-phone-format error.
C3_PhoneIffTenAsciiDigits ==
    cmd.op = "Phone" =>
        IF TenDigits(cmd.args[1]) THEN out = Returned(<<cmd.args[1]>>)
        ELSE out = Raise(PhoneError)

\* this year's month/day of the birthday if that is a date not before today,
\* next year's otherwise; None when there is no such date
Occurrence(birthday, today) ==
    LET this == Date(today.y, birthday.m, birthday.d)
        next == Date(today.y + 1, birthday.m, birthday.d)
    IN  IF ValidDate(this.y, this.m, this.d) /\ toordinal(this) >= toordinal(today) THEN this
        ELSE IF ValidDate(this.y, this.m, this.d) /\ ValidDate(next.y, next.m, next.d) THEN next
        ELSE None

InWeek(occurrence, today) ==
    /\ occurrence # None
    /\ toordinal(today) <= toordinal(occurrence)
    /\ toordinal(occurrence) < toordinal(today) + 7

Due(entry, today) ==
    entry.rec.birthday # None /\ InWeek(Occurrence(entry.rec.birthday, today), today)

\* the names of the records due in the week from today, in directory order
RECURSIVE DueNames(_, _)
DueNames(b, today) ==
    IF b = <<>> THEN <<>>
    ELSE (IF Due(Head(b), today) THEN <<Head(b).key>> ELSE <<>>) \o DueNames(Tail(b), today)

\* C4: for every current date and every directory the upcoming-birthdays query
\* returns exactly one entry for each record whose next occurrence is in
\* [today, today + 7 days), none for any other record, in insertion order.
C4_UpcomingExactlyTheDue ==
    cmd.op = "get_upcoming_birthdays" =>
        /\ out.kind = "return"
        /\ [i \in 1..Len(out.val) |-> out.val[i].name] = DueNames(book, cmd.today)

\* C5: every entry the query returns reports the occurrence itself on Monday
\* to Friday, the occurrence + 2 days on a Saturday and + 1 day on a Sunday:
\* never a weekend day, never before the occurrence; and a query that
\* returns reports a record whose occurrence is in the week even when the
\* shifted Monday is on or after today + 7 days.
C5_WeekendShift ==
    cmd.op = "get_upcoming_birthdays" /\ out.kind = "return" =>
        /\ \A i \in 1..Len(out.val) :
              LET occurrence == Occurrence(RecordOf(book, out.val[i].name).birthday, cmd.today)
                  reported   == string_to_date(out.val[i].congratulation_date)
              IN  /\ InWeek(occurrence, cmd.today)
                  /\ out.val[i].congratulation_date = strftime(reported)
                  /\ toordinal(reported) = toordinal(occurrence)
                        + (CASE weekday(occurrence) = 5 -> 2
                             [] weekday(occurrence) = 6 -> 1
                             [] OTHER -> 0)
                  /\ weekday(reported) \notin {5, 6}
                  /\ toordinal(reported) >= toordinal(occurrence)
        /\ \A k \in 1..Len(book) :
              Due(book[k], cmd.today) => \E i \in 1..Len(out.val) : out.val[i].name = book[k].key

\* a returned entry whose occurrence is a Saturday of the week and whose
\* reported Monday is on or after today + 7 days
C5_ShiftedPastTheWeek ==
    /\ cmd.op = "get_upcoming_birthdays"
    /\ out.kind = "return"
    /\ \E i \in 1..Len(out.val) :
          /\ weekday(Occurrence(RecordOf(book, out.val[i].name).birthday, cmd.today)) = 5
          /\ toordinal(string_to_date(out.val[i].congratulation_date))
                >= toordinal(cmd.today) + 7

IsPrefix(p, q) == Len(p) <= Len(q) /\ SubSeq(q, 1, Len(p)) = p

\* C6: add merges instead of overwriting: after add commands with valid
\* phones for a name, the record's phones are exactly the phones given, in
\* the order given, duplicates kept; the first add returns "Contact added."
\* and every later one "Contact updated."; and no add drops a stored phone
\* or the stored birthday of any record.
C6_AddMerges ==
    /\ [](\A n \in Names :
            given[n].only_adds /\ given[n].phones # <<>> =>
                n \in Keys(book) /\ RecordOf(book, n).phones = given[n].phones)
    /\ [](cmd.op = "add" /\ Len(cmd.args) >= 2 =>
            (given[cmd.args[1]].only_adds =>
                out = Ret(IF Len(given[cmd.args[1]].phones) = 1
                          THEN "Contact added." ELSE "Contact updated.")))
    /\ [][cmd'.op = "add" =>
            \A i \in 1..Len(book) :
                /\ i <= Len(book')
                /\ book'[i].key = book[i].key
                /\ book'[i].rec.birthday = book[i].rec.birthday
                /\ IsPrefix(book[i].rec.phones, book'[i].rec.phones)]_vars

\* the second add of the same phone to a record that has a birthday
C6_SecondAddKeepsAll ==
    /\ cmd.op = "add"
    /\ out = Ret("Contact updated.")
    /\ given[Alice].only_adds
    /\ given[Alice].phones = <<Phone1, Phone1>>
    /\ RecordOf(book, Alice).birthday # None
    /\ Bob \in Keys(book)

EnoughArgs(c) == Len(c.args) >= (IF c.op \in {"change", "add_birthday"} THEN 2 ELSE 1)

UsageOf(op) ==
    CASE op = "change" -> "Not enough arguments. Usage: change <name> <phone>"
      [] op = "add_birthday" -> "Not enough arguments. Usage: add_birthday <name> <birthday>"
      [] op = "phone" -> "Not enough arguments. Usage: phone <name>"
      [] op = "birthday" -> "Not enough arguments. Usage: birthday <name>"

NeedsRecord == {"change", "add_birthday", "phone", "birthday"}

\* C7 as stated: change, add_birthday, phone and birthday with a name that is
\* not in the directory, and any further arguments, return
\* "Contact <name> not found" and leave the directory unchanged.
C7_AbsentNameNotFound ==
    [][cmd'.op \in NeedsRecord /\ Len(cmd'.args) >= 1 /\ cmd'.args[1] \notin Keys(book) =>
          out' = Ret(NotFound(cmd'.args[1])) /\ book' = book]_vars

\* C7 as amended: with a name that is not in the directory these commands
\* leave the directory unchanged and the name absent; they return
\* "Contact <name> not found" when called with the arguments they require
\* (change and add_birthday: the name and one more), and the usage message
\* when change or add_birthday is called with the name alone.
C7_AbsentNameNeverCreated ==
    [][cmd'.op \in NeedsRecord /\ Len(cmd'.args) >= 1 /\ cmd'.args[1] \notin Keys(book) =>
          /\ out' = Ret(IF EnoughArgs(cmd') THEN NotFound(cmd'.args[1]) ELSE UsageOf(cmd'.op))
          /\ book' = book
          /\ find(book', cmd'.args[1]) = <<>>]_vars

\* change with a valid phone for a name that is absent from a directory that
\* holds another record
C7_ChangeOfAbsentName ==
    /\ cmd.op = "change"
    /\ cmd.args = <<Bob, Phone1>>
    /\ out = Ret("Contact Bob not found")
    /\ Keys(book) = {Alice}

\* C8: each key of the directory equals the name stored in its record, there
\* is one entry per name, and add_record with a name that is already a key
\* replaces that entry's whole record without changing any other entry.
C8_KeyIsRecordName ==
    /\ [](/\ \A i \in 1..Len(book) : book[i].key = book[i].rec.name
          /\ \A i, j \in 1..Len(book) : book[i].key = book[j].key => i = j)
    /\ [][cmd'.op = "add_record" =>
            OnlyRecordSet(book, book', cmd'.args[1].name, cmd'.args[1])]_vars

\* add_record of a fresh record for the first of two names: the entry was
\* there (a new one would come last) and now holds the record given
C8_RecordReplaced ==
    /\ cmd.op = "add_record"
    /\ Len(book) = 2
    /\ book[1].key = cmd.args[1].name
    /\ book[1].rec = cmd.args[1]
    /\ book[2].rec.phones # <<>>

\* C9: every phone held by any record is a string of exactly 10 decimal
\* digits, after any sequence of add and change commands and of addPhone,
\* removePhone and editPhone with an arbitrary new value.
C9_PhonesAreTenDigits ==
    \A i \in 1..Len(book) :
        \A j \in 1..Len(book[i].rec.phones) : TenDigits(book[i].rec.phones[j])

\* C10: delete of a name the directory does not contain fails with the
\* not-found error (KeyError) and leaves the directory unchanged; delete of a
\* name it contains removes exactly that entry, and find then reports absent.
C10_DeleteExactlyThatEntry ==
    [][cmd'.op = "delete" =>
          LET name == cmd'.args[1]
          IN  IF name \notin Keys(book)
              THEN out' = Raise("KeyError") /\ book' = book
              ELSE /\ out' = Returned(<<>>)
                   /\ book' = SelectSeq(book, LAMBDA e : e.key # name)
                   /\ Len(book') = Len(book) - 1
                   /\ find(book', name) = <<>>]_vars

\* delete of a name that is absent from a directory that holds another record
C10_DeleteOfAbsentName ==
    /\ cmd.op = "delete"
    /\ cmd.args = <<Bob>>
    /\ out = Raise("KeyError")
    /\ Keys(book) = {Alice}

====
